---- MODULE Spec2Model ----
(***************************************************************************)
(* Model of app.py: the product batch runner (NisbetsScraper.run_batch),   *)
(* the link crawler (URLScraper.run), the shared scraper_status record,    *)
(* the three persisted files and the triggers that start runs (/start,     *)
(* /start-urls, scheduled_scrape, auto_start_scraping).                    *)
(*                                                                         *)
(* URLs are integers: a product URL is a positive number (the order of the *)
(* numbers is the order sorted() gives the strings), base_url is 0, a      *)
(* category URL is a negative number down to -categories, and any smaller  *)
(* number is a link that is neither (/login, ...).  Texts that the  *)
(* code matches against a pattern (the last segment of a URL, the text of  *)
(* a price element) are sequences of characters.                           *)
(***************************************************************************)
EXTENDS Integers, Sequences, FiniteSets, Bags, TLC

\* ------------------------------------------------------------- bounds
\* Length of the bundled product_urls.txt in the small specification.
NumBundled == 3
\* BATCH_SIZE of the small specification (an environment setting).
SmallBatch == 2
\* Batch runs started in one behaviour.
MaxRuns == 2
\* Crawl runs started in one behaviour.
MaxCrawls == 2
\* Fetches of a behaviour that do not yield a titled product.
MaxFaults == 1
\* Length of the bundled product_urls.txt in the cadence specification.
LongUrls == 26
\* The largest small max_pages of the crawl specification.
SmallBudget == 2
\* Category pages of the large site of the crawl specification.
LongSite == 51

\* -------------------------------------------------- program constants
\* "Save every 25 products": (i + 1) % 25 == 0.
SaveEvery == 25
\* pages % 50 == 0 in URLScraper.run.
CrawlSaveEvery == 50
\* url_scraper.run is started with args=(1000,).
MAX_PAGES == 1000
\* BATCH_SIZE when the environment does not set it.
DefaultBatchSize == 100
\* self.base_url, the crawl's seed.
base_url == 0
\* Category pages of the site of the small specifications.
NumCategories == 2
\* A link that is neither a product nor a category URL (/login).
LoginLink == -1000
\* AUTO_START when the environment does not set it.
AUTO_START == TRUE
\* fetch_page(self, url, retries=3)
Retries == 3
\* product['images'] = images[:10]
MaxImages == 10

\* ------------------------------------------------------------ helpers
Min(a, b) == IF a <= b THEN a ELSE b

Range(n) == [j \in 1..n |-> j]

\* sorted(self.product_links)
SortedSeq(S) ==
  [j \in 1..Cardinality(S) |->
     CHOOSE x \in S : Cardinality({y \in S : y < x}) = j - 1]

\* scraper_status['error'] values.
None == "None"
NoUrlsError == "No URLs found. Run URL scraper first."
InternalError == "str(e)"

\* scraper_status['current_product']: None is <<>>, a product URL u is <<u>>,
\* the crawl's "URLs: n | Pages: p" is <<n, p>>.
NoProduct == <<>>

BatchThreads == {"start", "sched", "auto"}
CrawlThreads == {"crawl"}
Threads == BatchThreads \cup CrawlThreads

VARIABLES
  batch_size,       \* BATCH_SIZE
  bundled,          \* APP_DIR/product_urls.txt (<<>>: no file, or no line)
  urls_file,        \* DATA_DIR/product_urls.txt
  progress_file,    \* DATA_DIR/progress.json
  products_file,    \* DATA_DIR/products.json
  scraper_status,   \* the global scraper_status
  product_scraper,  \* the global NisbetsScraper instance
  url_scraper,      \* the global URLScraper instance
  pc,               \* where each thread stands
  run,              \* run_batch's locals, per batch thread
  pages,            \* URLScraper.run's local pages
  auto_pending,     \* auto_start_scraping has not run yet
  runs,             \* batch runs started so far
  crawls,           \* crawl runs started so far
  faults,           \* fetches so far that gave no titled product
  last_result,      \* how the batch run that ended last ended
  attempts,         \* the bag of the URLs the batch runs have fetched
  served,           \* the product pages the site answers a GET with
  max_pages,        \* the max_pages argument of URLScraper.run
  categories,       \* how many category pages the site has
  images_dir,       \* DATA_DIR/images: the filenames that exist
  image_log,        \* per filename, the GETs and the writes of download_image
  fetch_page_call,  \* one call of fetch_page: the answers it meets, its return
  crawl_log         \* what the crawl run under way has fetched and found

vars == <<batch_size, bundled, urls_file, progress_file, products_file,
          scraper_status, product_scraper, url_scraper, pc, run, pages,
          auto_pending, runs, crawls, faults, last_result, attempts,
          served, max_pages, categories, images_dir, image_log,
          fetch_page_call, crawl_log>>

config == <<batch_size, bundled, served, max_pages, categories>>

images == <<images_dir, image_log>>

files == <<urls_file, progress_file, products_file>>

\* A thread's run_batch frame outside a run: urls, start, end and i are the
\* locals.  k, fetched, marked, unsaved and titled record what the run did: k
\* is the last_index progress.json held when the run loaded it (0 without a
\* file), fetched the indices it fetched, marked whether it executed line 281,
\* unsaved the URLs it processed since it started or last wrote progress.json,
\* titled the URLs whose record it appended to self.products.
NoRun ==
  [urls |-> <<>>, start |-> 0, end |-> 0, i |-> 0, k |-> 0, fetched |-> <<>>,
   marked |-> FALSE, unsaved |-> 0, titled |-> <<>>]

\* The threads inside run_batch or URLScraper.run (or about to enter it).
Active == {t \in Threads : pc[t] # "idle"}

\* NisbetsScraper.load_urls
LoadUrls == IF urls_file.exists THEN urls_file.lines ELSE bundled

\* last_index as progress.json holds it (0 when there is no file).
PersistedIndex == IF progress_file.exists THEN progress_file.last_index ELSE 0

\* ------------------------------------------------------ texts and pages
DigitChars == <<"0", "1", "2", "3", "4", "5", "6", "7", "8", "9">>

LowerChars ==
  <<"a", "b", "c", "d", "e", "f", "g", "h", "i", "j", "k", "l", "m", "n", "o",
    "p", "q", "r", "s", "t", "u", "v", "w", "x", "y", "z">>

UpperChars ==
  <<"A", "B", "C", "D", "E", "F", "G", "H", "I", "J", "K", "L", "M", "N", "O",
    "P", "Q", "R", "S", "T", "U", "V", "W", "X", "Y", "Z">>

\* \d
DigitSet == {DigitChars[j] : j \in 1..Len(DigitChars)}

\* [a-zA-Z]
LetterSet ==
  {LowerChars[j] : j \in 1..Len(LowerChars)} \cup
  {UpperChars[j] : j \in 1..Len(UpperChars)}

\* str.upper(), character by character.
Upper(text) ==
  [j \in 1..Len(text) |->
     IF \E n \in 1..Len(LowerChars) : LowerChars[n] = text[j]
     THEN UpperChars[CHOOSE n \in 1..Len(LowerChars) : LowerChars[n] = text[j]]
     ELSE text[j]]

\* The decimal digits of a natural number.
RECURSIVE Decimal(_)
Decimal(n) ==
  IF n < 10 THEN <<DigitChars[n + 1]>>
  ELSE Decimal(n \div 10) \o <<DigitChars[(n % 10) + 1]>>

\* The characters of a URL after its last "/": "ab0<n>" for the product URL n,
\* "cat-<n>" for a category URL, "login" for any other link, and the host
\* for base_url.
LastSegment(u) ==
  IF u >= 1 THEN <<"a", "b", "0">> \o Decimal(u)
  ELSE IF u = base_url THEN <<"n", "i", "s", "b", "e", "t", "s">>
  ELSE IF u >= -categories THEN <<"c", "a", "t", "-">> \o Decimal(-u)
  ELSE <<"l", "o", "g", "i", "n">>

\* re.search(r'/([a-zA-Z]{1,4}\d{2,6})$', url): the last segment is one to
\* four letters followed by two to six digits.
SkuShaped(seg) ==
  \E n \in 1..4 :
    /\ Len(seg) - n \in 2..6
    /\ \A j \in 1..n : seg[j] \in LetterSet
    /\ \A j \in (n + 1)..Len(seg) : seg[j] \in DigitSet

\* product['source_sku']: url_match.group(1).upper(), or '' without a match.
SourceSku(url) ==
  IF SkuShaped(LastSegment(url)) THEN Upper(LastSegment(url)) ELSE <<>>

\* The pound sign U+00A3, and U+00C2, the character the price pattern of
\* line 142 has in front of it.
Pound == "POUND SIGN"
ACircumflex == "LATIN CAPITAL LETTER A WITH CIRCUMFLEX"

\* How many characters of text from position q on are in the set S.
RECURSIVE RunLen(_, _, _)
RunLen(text, q, S) ==
  IF q <= Len(text) /\ text[q] \in S THEN 1 + RunLen(text, q + 1, S) ELSE 0

\* Group 1 of re.search(r'<U+00C2><U+00A3>([\d,]+\.?\d*)', text) at the
\* leftmost match, <<>> without a match.
PriceGroup(text) ==
  LET starts == {p \in 1..(Len(text) - 2) :
                   /\ text[p] = ACircumflex
                   /\ text[p + 1] = Pound
                   /\ text[p + 2] \in DigitSet \cup {","}}
  IN  IF starts = {} THEN <<>>
      ELSE LET p == CHOOSE x \in starts : \A y \in starts : x <= y
               q == p + 2
               a == RunLen(text, q, DigitSet \cup {","})
               dot == IF q + a <= Len(text) /\ text[q + a] = "." THEN 1 ELSE 0
               b == RunLen(text, q + a + dot, DigitSet)
           IN  SubSeq(text, q, q + a + dot + b - 1)

\* .replace(',', '')
StripCommas(text) == SelectSeq(text, LAMBDA c : c # ",")

\* The price loop of lines 138-146 over the texts of the elements the three
\* selectors find, in selector order: the first text that matches gives the
\* price; <<>> is None.
RECURSIVE FirstPrice(_)
FirstPrice(texts) ==
  IF texts = <<>> THEN <<>>
  ELSE IF PriceGroup(Head(texts)) # <<>>
       THEN StripCommas(PriceGroup(Head(texts)))
       ELSE FirstPrice(Tail(texts))

\* price or '0.00'
ZeroPrice == <<"0", ".", "0", "0">>

\* soup.select_one(...) found no element.
NoElem == "no element"

\* A parsed page: body is "" for an empty response body and "None" for no
\* page, h1 the stripped text of the first h1, prices the texts of the price
\* elements in selector order, imgs the img sources (base: the file's base
\* name, png: '.png' in the URL, prod: a media.nisbets.com prodimage).
NoPage == [body |-> "None", h1 |-> NoElem, prices |-> <<>>, imgs |-> <<>>]
EmptyBody == [body |-> "", h1 |-> NoElem, prices |-> <<>>, imgs |-> <<>>]
TitledPage == [body |-> "html", h1 |-> "Widget", prices |-> <<>>, imgs |-> <<>>]
UntitledPage == [body |-> "html", h1 |-> NoElem, prices |-> <<>>, imgs |-> <<>>]

\* The pages of the small specifications.
PlainPages == {TitledPage, UntitledPage}

\* if html: None and '' are false.
Truthy(html) == html.body \notin {"None", ""}

\* ------------------------------------------------------------ fetch_page
\* The answers to a GET: a status with the page, or the exception of a
\* transport failure.
Ok(page) == [status |-> "200", page |-> page]
NotFound == [status |-> "404", page |-> NoPage]
Unavailable == [status |-> "503", page |-> NoPage]
Raised == [status |-> "exception", page |-> NoPage]

\* fetch_page with 404 handled like any other failure.
RECURSIVE fetch_page_Retry404(_, _)
fetch_page_Retry404(responses, attempt) ==
  IF attempt >= Retries
  THEN [html |-> NoPage, requests |-> attempt, raised |-> FALSE]
  ELSE IF responses[attempt + 1].status = "200"
       THEN [html |-> responses[attempt + 1].page, requests |-> attempt + 1,
             raised |-> FALSE]
       ELSE fetch_page_Retry404(responses, attempt + 1)

\* fetch_page from the given attempt on: responses[j] is the answer to the
\* j-th GET.  html is the return value, requests the GETs issued; raised
\* would be an exception leaving the call, which the try block around the
\* GET and the status test never lets happen.
RECURSIVE fetch_page(_, _)
fetch_page(responses, attempt) ==
  IF attempt >= Retries
  THEN [html |-> NoPage, requests |-> attempt, raised |-> FALSE]
  ELSE IF responses[attempt + 1].status = "200"
       THEN [html |-> responses[attempt + 1].page, requests |-> attempt + 1,
             raised |-> FALSE]
       ELSE IF responses[attempt + 1].status = "404"
            THEN [html |-> NoPage, requests |-> attempt + 1, raised |-> FALSE]
            ELSE fetch_page(responses, attempt + 1)

\* -------------------------------------------------------- download_image
\* filename = f"{sku}_{index}{ext}"
Filename(src, sku, index) ==
  [sku |-> sku, index |-> index, ext |-> IF src.png THEN ".png" ELSE ".jpg"]

\* download_image without the os.path.exists test.
download_image_NoExistsTest(src, sku, index, answer, dir) ==
  [filename |-> Filename(src, sku, index),
   local |-> answer = "200", get |-> TRUE, write |-> answer = "200"]

\* download_image: local is whether it returns a path, get whether it issued
\* the GET, write whether it wrote the file.
download_image(src, sku, index, answer, dir) ==
  IF Filename(src, sku, index) \in dir
  THEN [filename |-> Filename(src, sku, index),
        local |-> TRUE, get |-> FALSE, write |-> FALSE]
  ELSE [filename |-> Filename(src, sku, index),
        local |-> answer = "200", get |-> TRUE, write |-> answer = "200"]

\* The answers to the GET of an image.
ImageAnswers == {"200", "503"}

\* The image loop of lines 163-179 from the j-th img on.  acc holds images,
\* seen, the directory and the log so far.
RECURSIVE ImagesFrom(_, _, _, _, _)
ImagesFrom(j, imgs, sku, answers, acc) ==
  IF j > Len(imgs) THEN acc
  ELSE IF imgs[j].prod /\ imgs[j].base \notin acc.seen
       THEN LET d == download_image(imgs[j], sku, Len(acc.images) + 1,
                                    answers[j], acc.dir)
                one == SetToBag({d.filename})
            IN  ImagesFrom(j + 1, imgs, sku, answers,
                  [images |-> IF d.local
                              THEN Append(acc.images,
                                          [src |-> imgs[j],
                                           filename |-> d.filename])
                              ELSE acc.images,
                   seen |-> acc.seen \cup {imgs[j].base},
                   dir |-> IF d.write THEN acc.dir \cup {d.filename}
                           ELSE acc.dir,
                   log |-> [gets |-> IF d.get THEN acc.log.gets (+) one
                                     ELSE acc.log.gets,
                            writes |-> IF d.write THEN acc.log.writes (+) one
                                       ELSE acc.log.writes]])
       ELSE ImagesFrom(j + 1, imgs, sku, answers, acc)

\* ------------------------------------------------------- extract_product
\* extract_product(html, url), with the answers to the image GETs and the
\* images directory it meets: the product record, and the directory and the
\* log as download_image leaves them.
ExtractProduct(html, url, answers, dir, log) ==
  LET sku == SourceSku(url)
      price == FirstPrice(html.prices)
      got == ImagesFrom(1, html.imgs, sku, answers,
                        [images |-> <<>>, seen |-> {}, dir |-> dir,
                         log |-> log])
  IN  [product |->
         [source_url |-> url,
          title |-> IF html.h1 = NoElem THEN "" ELSE html.h1,
          source_sku |-> sku,
          source_price |-> price,
          images |-> SubSeq(got.images, 1, Min(MaxImages, Len(got.images))),
          variants |-> <<[title |-> "Default",
                          price |-> IF price = <<>> THEN ZeroPrice ELSE price,
                          sku |-> sku,
                          currency |-> "GBP"]>>,
          tags |-> <<<<"SKU:">> \o sku, <<"UK">>, <<"Nisbets UK">>, <<"GBP">>>>],
       dir |-> got.dir,
       log |-> got.log]

\* No call of fetch_page, and no crawl run, to record.
NoCall ==
  [responses |-> <<>>, returned |-> FALSE, raised |-> FALSE, html |-> NoPage,
   requests |-> 0]
NoCrawl == [fetched |-> EmptyBag, found |-> {}]

InitCommon ==
  /\ urls_file = [exists |-> FALSE, lines |-> <<>>]
  /\ progress_file = [exists |-> FALSE, last_index |-> 0, failed_urls |-> <<>>]
  /\ products_file = [exists |-> FALSE, products |-> <<>>, failed_urls |-> <<>>]
  /\ scraper_status =
       [running |-> FALSE, products_scraped |-> 0, current_index |-> 0,
        failed_count |-> 0, current_product |-> NoProduct, error |-> None]
  /\ product_scraper =
       [products |-> <<>>, failed_urls |-> <<>>, last_scraped_index |-> 0]
  /\ url_scraper = [product_links |-> {}, category_links |-> {}, visited |-> {}]
  /\ pc = [t \in Threads |-> "idle"]
  /\ run = [t \in BatchThreads |-> NoRun]
  /\ pages = 0
  /\ runs = 0
  /\ crawls = 0
  /\ faults = 0
  /\ last_result = "none"
  /\ attempts = EmptyBag
  /\ images_dir = {}
  /\ image_log = [gets |-> EmptyBag, writes |-> EmptyBag]
  /\ crawl_log = NoCrawl

Init ==
  /\ InitCommon
  /\ batch_size = SmallBatch
  /\ bundled \in {<<>>, Range(NumBundled)}
  /\ auto_pending = AUTO_START
  /\ served = PlainPages
  /\ max_pages = MAX_PAGES
  /\ categories = NumCategories
  /\ fetch_page_call = NoCall

\* ------------------------------------------------------------ run_batch
\* Aborted without the finally block.
Aborted_NoFinally(status) == [status EXCEPT !.error = InternalError]

\* except Exception: error = str(e); finally: running = False,
\* current_product = None.
Aborted(status) ==
  [status EXCEPT !.error = InternalError, !.running = FALSE,
                 !.current_product = NoProduct]

\* finally: running = False, current_product = None.
Finally(status) ==
  [status EXCEPT !.running = FALSE, !.current_product = NoProduct]

\* Where the for loop stands once index i is done.
AfterIndex(t, i) == IF i < run[t].end THEN "fetch" ELSE "finish"

\* scraper_status['running'] = True; scraper_status['error'] = None
BatchEntry(t) ==
  /\ pc[t] = "entry"
  /\ scraper_status' = [scraper_status EXCEPT !.running = TRUE, !.error = None]
  /\ run' = [run EXCEPT ![t] = [NoRun EXCEPT !.marked = TRUE]]
  /\ pc' = [pc EXCEPT ![t] = "load"]
  /\ UNCHANGED <<last_result, config, images, fetch_page_call,
                 crawl_log, attempts, files, product_scraper,
                 url_scraper, pages, auto_pending, runs, crawls, faults>>

\* The empty-list exit that returns with running still set.
EmptyExit_StillRunning(status) == [status EXCEPT !.error = NoUrlsError]

\* The status the empty-list exit leaves: the error, running = False, and the
\* finally block after the return.
EmptyExit(status) ==
  Finally([status EXCEPT !.error = NoUrlsError, !.running = FALSE])

\* init_scraper, load_urls, the empty-list exit, load_products, load_progress,
\* the status counts and the window [start, end).
BatchLoad(t) ==
  /\ pc[t] = "load"
  /\ \E raised \in BOOLEAN :
       IF raised
       THEN \* init_scraper raised
            /\ scraper_status' = Aborted(scraper_status)
            /\ run' = [run EXCEPT ![t] = NoRun]
            /\ last_result' = "error"
            /\ pc' = [pc EXCEPT ![t] = "idle"]
            /\ UNCHANGED product_scraper
       ELSE LET urls == LoadUrls IN
            IF urls = <<>>
            THEN /\ scraper_status' = EmptyExit(scraper_status)
                 /\ run' = [run EXCEPT ![t] = NoRun]
                 /\ last_result' = "empty"
                 /\ pc' = [pc EXCEPT ![t] = "idle"]
                 /\ UNCHANGED product_scraper
            ELSE LET prods == IF products_file.exists
                              THEN products_file.products
                              ELSE product_scraper.products
                     failed == IF progress_file.exists
                               THEN progress_file.failed_urls
                               ELSE product_scraper.failed_urls
                     start == IF progress_file.exists
                              THEN progress_file.last_index
                              ELSE product_scraper.last_scraped_index
                     end == Min(start + batch_size, Len(urls))
                 IN  /\ product_scraper' =
                          [products |-> prods, failed_urls |-> failed,
                           last_scraped_index |-> start]
                     /\ scraper_status' =
                          [scraper_status EXCEPT !.current_index = start,
                                                 !.products_scraped = Len(prods)]
                     /\ run' = [run EXCEPT ![t] =
                                  [run[t] EXCEPT !.urls = urls, !.i = start,
                                                 !.start = start, !.end = end,
                                                 !.k = PersistedIndex]]
                     /\ pc' = [pc EXCEPT ![t] =
                                 IF start < end THEN "fetch" ELSE "finish"]
                     /\ UNCHANGED last_result
  /\ UNCHANGED <<config, images, fetch_page_call,
                 crawl_log, attempts, files, url_scraper, pages, auto_pending,
                 runs, crawls, faults>>

\* What the site may answer the GETs of one fetch_page call with: the same
\* answer to every GET, or a page after a transport failure and a 503.
Always(response) == [j \in 1..Retries |-> response]

BatchAnswers ==
  {Always(Ok(page)) : page \in served \cup {EmptyBody}} \cup
  {Always(NotFound), Always(Unavailable)} \cup
  {<<Raised, Unavailable, Ok(page)>> : page \in served}

\* A save at every 50th index only.
AtCheckpoint_Every50(i) == (i + 1) % (2 * SaveEvery) = 0

\* if (i + 1) % 25 == 0
AtCheckpoint(i) == (i + 1) % SaveEvery = 0

\* One iteration of the for loop up to random_delay, lines 304-319, when the
\* site answers fetch_page with responses and the image GETs with answers.
FetchOne(t, responses, answers) ==
  LET i == run[t].i
      url == run[t].urls[i + 1]
      html == fetch_page(responses, 0).html
      ex == ExtractProduct(html, url, answers, images_dir, image_log)
      titled == Truthy(html) /\ ex.product.title # ""
      prods == IF titled THEN Append(product_scraper.products, ex.product)
               ELSE product_scraper.products
      failed == IF Truthy(html) THEN product_scraper.failed_urls
                ELSE Append(product_scraper.failed_urls, url)
      seen == IF titled THEN Append(run[t].titled, url) ELSE run[t].titled
  IN  /\ ~titled => faults < MaxFaults
      /\ attempts' = attempts (+) SetToBag({url})
      /\ faults' = IF titled THEN faults ELSE faults + 1
      /\ images_dir' = IF Truthy(html) THEN ex.dir ELSE images_dir
      /\ image_log' = IF Truthy(html) THEN ex.log ELSE image_log
      /\ product_scraper' =
           [products |-> prods, failed_urls |-> failed,
            last_scraped_index |-> i + 1]
      /\ scraper_status' =
           [scraper_status EXCEPT
              !.current_index = i + 1,
              !.current_product = <<url>>,
              !.products_scraped = IF titled THEN Len(prods) ELSE @,
              !.failed_count = IF Truthy(html) THEN @ ELSE Len(failed)]
      /\ IF AtCheckpoint(i)
         THEN /\ run' = [run EXCEPT ![t].fetched = Append(@, i),
                                    ![t].unsaved = @ + 1,
                                    ![t].titled = seen]
              /\ pc' = [pc EXCEPT ![t] = "checkpoint"]
         ELSE /\ run' = [run EXCEPT ![t].fetched = Append(@, i),
                                    ![t].unsaved = @ + 1,
                                    ![t].titled = seen,
                                    ![t].i = i + 1]
              /\ pc' = [pc EXCEPT ![t] = AfterIndex(t, i + 1)]
      /\ UNCHANGED <<last_result, config, files, url_scraper, pages,
                     auto_pending, runs, crawls, fetch_page_call, crawl_log>>

BatchFetch(t) ==
  /\ pc[t] = "fetch"
  /\ \E responses \in BatchAnswers :
       \E answers \in [1..Len(fetch_page(responses, 0).html.imgs) -> ImageAnswers] :
         FetchOne(t, responses, answers)

\* How save_products followed by save_progress ends: both written, or open()
\* raises on the first, or on the second after the first was written.
SaveOutcomes == {"saved", "products_raised", "progress_raised"}

\* save_products
SavedProducts ==
  [exists |-> TRUE, products |-> product_scraper.products,
   failed_urls |-> product_scraper.failed_urls]

\* save_progress(index)
SavedProgress(index) ==
  [exists |-> TRUE, last_index |-> index,
   failed_urls |-> product_scraper.failed_urls]

\* save_products(); save_progress(index), as far as they get.
SaveBoth(index, how) ==
  /\ products_file' = IF how = "products_raised" THEN products_file
                      ELSE SavedProducts
  /\ progress_file' = IF how = "saved" THEN SavedProgress(index)
                      ELSE progress_file

\* if (i + 1) % 25 == 0: save_products(); save_progress(i + 1)
BatchCheckpoint(t) ==
  /\ pc[t] = "checkpoint"
  /\ LET i == run[t].i IN
     \E how \in SaveOutcomes :
       /\ SaveBoth(i + 1, how)
       /\ IF how = "saved"
          THEN /\ run' = [run EXCEPT ![t].i = i + 1, ![t].unsaved = 0]
               /\ pc' = [pc EXCEPT ![t] = AfterIndex(t, i + 1)]
               /\ UNCHANGED <<scraper_status, last_result>>
          ELSE /\ run' = [run EXCEPT ![t] = NoRun]
               /\ last_result' = "error"
               /\ pc' = [pc EXCEPT ![t] = "idle"]
               /\ scraper_status' = Aborted(scraper_status)
  /\ UNCHANGED <<config, images, fetch_page_call,
                 crawl_log, attempts, urls_file, product_scraper, url_scraper,
                 pages, auto_pending, runs, crawls, faults>>

\* After the loop: save_products(); save_progress(self.last_scraped_index);
\* last_run; then the finally block.
BatchFinish(t) ==
  /\ pc[t] = "finish"
  /\ \E how \in SaveOutcomes :
       /\ SaveBoth(product_scraper.last_scraped_index, how)
       /\ IF how = "saved"
          THEN /\ run' = [run EXCEPT ![t] = NoRun]
               /\ last_result' = "completed"
               /\ scraper_status' = Finally(scraper_status)
          ELSE /\ run' = [run EXCEPT ![t] = NoRun]
               /\ last_result' = "error"
               /\ scraper_status' = Aborted(scraper_status)
       /\ pc' = [pc EXCEPT ![t] = "idle"]
  /\ UNCHANGED <<config, images, fetch_page_call,
                 crawl_log, attempts, urls_file, product_scraper, url_scraper,
                 pages, auto_pending, runs, crawls, faults>>

\* ------------------------------------------------------------- triggers
\* POST /start: a thread running run_batch, unless running is set.
StartScraper ==
  /\ pc["start"] = "idle"
  /\ runs < MaxRuns
  /\ ~scraper_status.running
  /\ pc' = [pc EXCEPT !["start"] = "entry"]
  /\ runs' = runs + 1
  /\ UNCHANGED <<last_result, config, images, fetch_page_call,
                 crawl_log, attempts, files, scraper_status,
                 product_scraper, url_scraper, run, pages, auto_pending,
                 crawls, faults>>

\* The interval job: run_batch unless running is set.
ScheduledScrape ==
  /\ pc["sched"] = "idle"
  /\ runs < MaxRuns
  /\ ~scraper_status.running
  /\ pc' = [pc EXCEPT !["sched"] = "entry"]
  /\ runs' = runs + 1
  /\ UNCHANGED <<last_result, config, images, fetch_page_call,
                 crawl_log, attempts, files, scraper_status,
                 product_scraper, url_scraper, run, pages, auto_pending,
                 crawls, faults>>

\* The startup thread, once, five seconds after the start: run_batch when
\* load_urls gives a URL.
AutoStartScraping ==
  /\ auto_pending
  /\ pc["auto"] = "idle"
  /\ runs < MaxRuns
  /\ auto_pending' = FALSE
  /\ IF LoadUrls # <<>> /\ AUTO_START
     THEN /\ pc' = [pc EXCEPT !["auto"] = "entry"]
          /\ runs' = runs + 1
     ELSE UNCHANGED <<pc, runs>>
  /\ UNCHANGED <<last_result, config, images, fetch_page_call,
                 crawl_log, attempts, files, scraper_status,
                 product_scraper, url_scraper, run, pages, crawls, faults>>

BatchStep(t) ==
  \/ BatchEntry(t)
  \/ BatchLoad(t)
  \/ BatchFetch(t)
  \/ BatchCheckpoint(t)
  \/ BatchFinish(t)

\* ------------------------------------------------------------ the crawl
\* The hyperlinks of the site's pages, already joined to base_url and
\* stripped of query string and trailing slash.  The root links the first
\* category, product 3 and the login page; category n links product n, the
\* categories next to it, and the first one product 3 as well.
SiteLinks(u) ==
  IF u = base_url THEN {-1, 3, LoginLink}
  ELSE IF u <= -1 /\ u >= -categories
       THEN {-u} \cup (IF u = -1 THEN {3} ELSE {u + 1})
                 \cup (IF u > -categories THEN {u - 1} ELSE {})
       ELSE {}

\* URLScraper.is_product_url
is_product_url(u) == u >= 1

\* URLScraper.is_category_url
is_category_url(u) == u <= -1 /\ u >= -categories

\* scrape_page without the test of line 382 against the visited set.
ScrapePage_NoVisitedCheck(us, url, ok) ==
  IF ~ok THEN us
  ELSE [us EXCEPT
          !.product_links = @ \cup {l \in SiteLinks(url) : is_product_url(l)},
          !.category_links = @ \cup
             {l \in SiteLinks(url) : ~is_product_url(l) /\ is_category_url(l)}]

\* URLScraper.scrape_page: nothing on a status other than 200 or an exception,
\* else every link is classified.
ScrapePage(us, url, ok) ==
  IF ~ok THEN us
  ELSE [us EXCEPT
          !.product_links = @ \cup {l \in SiteLinks(url) : is_product_url(l)},
          !.category_links = @ \cup
             {l \in SiteLinks(url) :
                ~is_product_url(l) /\ is_category_url(l) /\ l \notin us.visited}]

\* The product links a fetch of url adds to product_links.
Found(url, ok) ==
  IF ok THEN {l \in SiteLinks(url) : is_product_url(l)} ELSE {}

\* pages < max_pages with the budget one page larger.
WithinBudget_OneMore(p) == p <= max_pages

\* pages < max_pages
WithinBudget(p) == p < max_pages

\* URLScraper.save_urls
SavedUrls(links) == [exists |-> TRUE, lines |-> SortedSeq(links)]

\* POST /start-urls: a thread running url_scraper.run, unless running is set.
StartUrlScraper ==
  /\ pc["crawl"] = "idle"
  /\ crawls < MaxCrawls
  /\ ~scraper_status.running
  /\ pc' = [pc EXCEPT !["crawl"] = "entry"]
  /\ crawls' = crawls + 1
  /\ UNCHANGED <<last_result, config, images, fetch_page_call,
                 crawl_log, attempts, files, scraper_status,
                 product_scraper, url_scraper, run, pages, auto_pending, runs,
                 faults>>

\* scraper_status['running'] = True; scraper_status['error'] = None
CrawlEntry ==
  /\ pc["crawl"] = "entry"
  /\ scraper_status' = [scraper_status EXCEPT !.running = TRUE, !.error = None]
  /\ pc' = [pc EXCEPT !["crawl"] = "seed"]
  /\ crawl_log' = NoCrawl
  /\ UNCHANGED <<last_result, config, images, fetch_page_call,
                 attempts, files, product_scraper,
                 url_scraper, run, pages, auto_pending, runs, crawls, faults>>

\* init_scraper(); scrape_page(base_url); pages = 0
CrawlSeed ==
  /\ pc["crawl"] = "seed"
  /\ \E ok \in BOOLEAN :
       /\ url_scraper' = ScrapePage(url_scraper, base_url, ok)
       /\ crawl_log' = [crawl_log EXCEPT !.found = @ \cup Found(base_url, ok)]
  /\ pages' = 0
  /\ pc' = [pc EXCEPT !["crawl"] = "visit"]
  /\ UNCHANGED <<last_result, config, images, fetch_page_call,
                 attempts, files, scraper_status,
                 product_scraper, run, auto_pending, runs, crawls, faults>>

\* if pages % 50 == 0
AtCrawlSave(p) == p % CrawlSaveEvery = 0

\* One iteration of the while loop: pop a category link, skip it when visited,
\* else visit it, count it, and save the URLs on every 50th page; when open()
\* raises in that save, the except clause ends the run.
CrawlVisit ==
  /\ pc["crawl"] = "visit"
  /\ url_scraper.category_links # {}
  /\ WithinBudget(pages)
  /\ \E url \in url_scraper.category_links, ok \in BOOLEAN :
       LET popped == [url_scraper EXCEPT !.category_links = @ \ {url}] IN
       IF url \in url_scraper.visited
       THEN /\ url_scraper' = popped
            /\ UNCHANGED <<pages, scraper_status, urls_file, crawl_log, pc>>
       ELSE LET us == ScrapePage([popped EXCEPT !.visited = @ \cup {url}],
                                 url, ok)
                status == [scraper_status EXCEPT !.current_product =
                             <<Cardinality(us.product_links), pages + 1>>]
            IN  /\ url_scraper' = us
                /\ pages' = pages + 1
                /\ \E raised \in {FALSE, AtCrawlSave(pages + 1)} :
                     IF raised
                     THEN /\ scraper_status' =
                               [status EXCEPT !.error = InternalError,
                                              !.running = FALSE]
                          /\ pc' = [pc EXCEPT !["crawl"] = "idle"]
                          /\ crawl_log' = NoCrawl
                          /\ UNCHANGED urls_file
                     ELSE /\ scraper_status' = status
                          /\ crawl_log' =
                               [fetched |->
                                  crawl_log.fetched (+) SetToBag({url}),
                                found |-> crawl_log.found \cup Found(url, ok)]
                          /\ urls_file' = IF AtCrawlSave(pages + 1)
                                          THEN SavedUrls(us.product_links)
                                          ELSE urls_file
                          /\ UNCHANGED pc
  /\ UNCHANGED <<last_result, config, images, fetch_page_call, attempts,
                 progress_file, products_file, product_scraper, run,
                 auto_pending, runs, crawls, faults>>

\* After the loop: save_urls(); total_urls; finally running = False.  When
\* open() raises, the except clause records the error instead.
CrawlFinish ==
  /\ pc["crawl"] = "visit"
  /\ url_scraper.category_links = {} \/ ~WithinBudget(pages)
  /\ \E raised \in BOOLEAN :
       IF raised
       THEN /\ scraper_status' =
                 [scraper_status EXCEPT !.error = InternalError,
                                        !.running = FALSE]
            /\ UNCHANGED urls_file
       ELSE /\ urls_file' = SavedUrls(url_scraper.product_links)
            /\ scraper_status' = [scraper_status EXCEPT !.running = FALSE]
  /\ pc' = [pc EXCEPT !["crawl"] = "idle"]
  /\ crawl_log' = NoCrawl
  /\ UNCHANGED <<last_result, config, images, fetch_page_call, attempts,
                 progress_file, products_file, product_scraper, url_scraper,
                 run, pages, auto_pending, runs, crawls, faults>>

CrawlStep ==
  \/ CrawlEntry
  \/ CrawlSeed
  \/ CrawlVisit
  \/ CrawlFinish

\* -------------------------------------------------------- specification
\* BatchCheckpoint is no disjunct here: the URL lists of Init are shorter
\* than 25, so no index of theirs is a multiple of 25 (see CadenceSpec).
Next ==
  \/ StartScraper
  \/ ScheduledScrape
  \/ AutoStartScraping
  \/ StartUrlScraper
  \/ \E t \in BatchThreads : BatchEntry(t)
  \/ \E t \in BatchThreads : BatchLoad(t)
  \/ \E t \in BatchThreads : BatchFetch(t)
  \/ \E t \in BatchThreads : BatchFinish(t)
  \/ CrawlEntry
  \/ CrawlSeed
  \/ CrawlVisit
  \/ CrawlFinish

Spec == Init /\ [][Next]_vars

\* The runs one after another: the behaviours of Spec in which a trigger
\* fires only when no run is active.
SerialNext ==
  \/ Active = {} /\ StartScraper
  \/ Active = {} /\ ScheduledScrape
  \/ Active = {} /\ AutoStartScraping
  \/ Active = {} /\ StartUrlScraper
  \/ \E t \in BatchThreads : BatchEntry(t)
  \/ \E t \in BatchThreads : BatchLoad(t)
  \/ \E t \in BatchThreads : BatchFetch(t)
  \/ \E t \in BatchThreads : BatchFinish(t)
  \/ CrawlEntry
  \/ CrawlSeed
  \/ CrawlVisit
  \/ CrawlFinish

SerialSpec == Init /\ [][SerialNext]_vars

\* The product batches alone: POST /start and the startup thread, which may
\* overlap, and no crawl.
NextBatch ==
  \/ StartScraper
  \/ AutoStartScraping
  \/ \E t \in BatchThreads : BatchEntry(t)
  \/ \E t \in BatchThreads : BatchLoad(t)
  \/ \E t \in BatchThreads : BatchFetch(t)
  \/ \E t \in BatchThreads : BatchFinish(t)

BatchSpec == Init /\ [][NextBatch]_vars

\* A thread that is inside run_batch goes on running: every blocking call of
\* the loop (the GET with its timeout, the sleep, the file write) returns.
FairBatchSpec ==
  BatchSpec /\ \A t \in BatchThreads : WF_vars(BatchStep(t))

\* The interval job alone over a URL list long enough for the save at every
\* 25th index, with BATCH_SIZE 25 or its default.
InitCadence ==
  /\ InitCommon
  /\ batch_size \in {SaveEvery, DefaultBatchSize}
  /\ bundled = Range(LongUrls)
  /\ auto_pending = FALSE
  /\ served = PlainPages
  /\ max_pages = MAX_PAGES
  /\ categories = NumCategories
  /\ fetch_page_call = NoCall

NextCadence ==
  \/ ScheduledScrape
  \/ BatchEntry("sched")
  \/ BatchLoad("sched")
  \/ BatchFetch("sched")
  \/ BatchCheckpoint("sched")
  \/ BatchFinish("sched")

CadenceSpec == InitCadence /\ [][NextCadence]_vars

\* One call of fetch_page against every run of answers the site can give to
\* four GETs in a row.
FetchResponses == {Ok(TitledPage), Ok(EmptyBody), NotFound, Unavailable, Raised}

InitFetch ==
  /\ InitCommon
  /\ batch_size = SmallBatch
  /\ bundled = <<>>
  /\ auto_pending = FALSE
  /\ served = PlainPages
  /\ max_pages = MAX_PAGES
  /\ categories = NumCategories
  /\ \E responses \in [1..(Retries + 1) -> FetchResponses] :
       fetch_page_call = [NoCall EXCEPT !.responses = responses]

\* html = self.fetch_page(url)
FetchPage ==
  /\ ~fetch_page_call.returned
  /\ LET r == fetch_page(fetch_page_call.responses, 0)
     IN  fetch_page_call' =
           [fetch_page_call EXCEPT !.returned = TRUE, !.html = r.html,
                                   !.requests = r.requests,
                                   !.raised = r.raised]
  /\ UNCHANGED <<config, files, images, scraper_status, product_scraper,
                 url_scraper, pc, run, pages, auto_pending, runs, crawls,
                 faults, last_result, attempts, crawl_log>>

NextFetch == FetchPage

FetchSpec == InitFetch /\ [][NextFetch]_vars

\* One URL in the list, a product URL or a link that is none, and a site that
\* answers with one page: with or without an h1, and with price elements
\* whose texts are the pound sign and 12.50, the pound sign and 1,200.00,
\* the first text as a UTF-8 page decoded as Latin-1 shows it (U+00C2 before
\* the pound sign), or a number without a currency sign.
PriceTexts ==
  {<<Pound, "1", "2", ".", "5", "0">>,
   <<Pound, "1", ",", "2", "0", "0", ".", "0", "0">>,
   <<ACircumflex, Pound, "1", "2", ".", "5", "0">>,
   <<"1", "2">>}

PricedPages ==
  {[body |-> "html", h1 |-> h, prices |-> prices, imgs |-> <<>>] :
     h \in {"Widget", NoElem},
     prices \in {<<>>} \cup {<<text>> : text \in PriceTexts} \cup
                {<<<<"1", "2">>, text>> : text \in PriceTexts}}

InitEndToEnd ==
  /\ InitCommon
  /\ batch_size = SmallBatch
  /\ bundled \in {<<1>>, <<LoginLink>>}
  /\ auto_pending = AUTO_START
  /\ \E page \in PricedPages : served = {page}
  /\ max_pages = MAX_PAGES
  /\ categories = NumCategories
  /\ fetch_page_call = NoCall

EndToEndSpec == InitEndToEnd /\ [][NextBatch]_vars

\* The record of a product URL whose page is TitledPage.
PlainRecord(url) ==
  ExtractProduct(TitledPage, url, <<>>, {},
                 [gets |-> EmptyBag, writes |-> EmptyBag]).product

\* The program once a first batch of SmallBatch URLs of the bundled list has
\* completed, each fetch giving a titled page: the state the behaviour
\* StartScraper, BatchEntry, BatchLoad, BatchFetch (SmallBatch times),
\* BatchFinish of Spec ends in, with the counters of runs at 0 again.
InitResumed ==
  /\ batch_size = SmallBatch
  /\ bundled = Range(NumBundled)
  /\ auto_pending = AUTO_START
  /\ served = PlainPages
  /\ max_pages = MAX_PAGES
  /\ categories = NumCategories
  /\ fetch_page_call = NoCall
  /\ urls_file = [exists |-> FALSE, lines |-> <<>>]
  /\ progress_file =
       [exists |-> TRUE, last_index |-> SmallBatch, failed_urls |-> <<>>]
  /\ products_file =
       [exists |-> TRUE, products |-> [j \in 1..SmallBatch |-> PlainRecord(j)],
        failed_urls |-> <<>>]
  /\ scraper_status =
       [running |-> FALSE, products_scraped |-> SmallBatch,
        current_index |-> SmallBatch, failed_count |-> 0,
        current_product |-> NoProduct, error |-> None]
  /\ product_scraper =
       [products |-> [j \in 1..SmallBatch |-> PlainRecord(j)],
        failed_urls |-> <<>>, last_scraped_index |-> SmallBatch]
  /\ url_scraper = [product_links |-> {}, category_links |-> {}, visited |-> {}]
  /\ pc = [t \in Threads |-> "idle"]
  /\ run = [t \in BatchThreads |-> NoRun]
  /\ pages = 0
  /\ runs = 0
  /\ crawls = 0
  /\ faults = 0
  /\ last_result = "completed"
  /\ attempts = SetToBag(1..SmallBatch)
  /\ images_dir = {}
  /\ image_log = [gets |-> EmptyBag, writes |-> EmptyBag]
  /\ crawl_log = NoCrawl

ResumedSpec == InitResumed /\ [][NextBatch]_vars

\* The crawl alone, over the small site and over a site of more than 50
\* category pages, with max_pages small, or 1000 as start_url_scraper passes.
InitCrawl ==
  /\ InitCommon
  /\ batch_size = SmallBatch
  /\ bundled = <<>>
  /\ auto_pending = FALSE
  /\ served = PlainPages
  /\ max_pages \in 1..SmallBudget \cup {MAX_PAGES}
  /\ categories \in {NumCategories, LongSite}
  /\ fetch_page_call = NoCall

NextCrawl ==
  \/ StartUrlScraper
  \/ CrawlEntry
  \/ CrawlSeed
  \/ CrawlVisit
  \/ CrawlFinish

CrawlSpec == InitCrawl /\ [][NextCrawl]_vars

\* A crawl that has started goes on: the GET with its timeout, the sleep and
\* the file write return.
FairCrawlSpec == CrawlSpec /\ WF_vars(CrawlStep)

\* ---------------------------------------------------------------- claims
InLoop(t) == pc[t] \in {"fetch", "checkpoint", "finish"}

\* Thread t's run_batch returns in this step, its window done and saved.
Completes(t) ==
  pc[t] = "finish" /\ pc'[t] = "idle" /\ last_result' = "completed"

\* Thread t's run_batch returns in this step on the empty URL list.
ExitsEmpty(t) ==
  pc[t] = "load" /\ pc'[t] = "idle" /\ last_result' = "empty"

\* The window of claim C1: indices k .. k + n - 1.
Window(k, n) == [j \in 1..n |-> k + j - 1]

\* C1: a run_batch(B) that meets no internal error, started with progress.json
\* holding last_index = k and a URL list of length L, fetches exactly the
\* indices k .. k + min(B, L - k) - 1, each once and in order, and leaves
\* last_index = k + min(B, L - k) in progress.json.
C1_ExactWindow ==
  [][\A t \in BatchThreads :
       Completes(t) =>
         LET k == run[t].k
             n == Min(batch_size, Len(run[t].urls) - k)
         IN  /\ run[t].fetched = Window(k, n)
             /\ PersistedIndex' = k + n]_vars

\* C2: in every reachable state the persisted last_index is at most the
\* length of the URL list load_urls returns.
C2_IndexWithinList == PersistedIndex <= Len(LoadUrls)

\* C3: every URL at an index below the persisted last_index of the current
\* URL list has been fetched by some batch run.
C3_PrefixAttempted ==
  \A j \in 1..Min(PersistedIndex, Len(LoadUrls)) :
    CopiesIn(LoadUrls[j], attempts) >= 1

\* C4: while the URL list is the bundled one (no crawl has written
\* product_urls.txt), the batch runs fetch each URL index at most once.
C4_FetchedAtMostOnce ==
  ~urls_file.exists => \A j \in 1..Len(bundled) : CopiesIn(bundled[j], attempts) <= 1

C6_AtMost24 ==
  \A t \in BatchThreads :
    InLoop(t) => product_scraper.last_scraped_index - PersistedIndex <= 24

\* C6 as amended: a run has processed at most 25 URLs since it started or last
\* wrote progress.json, and 25 only between advancing the index to a multiple
\* of 25 and the save that follows the delay; for the only active run, resumed
\* from the persisted index, that number is last_scraped_index minus the
\* persisted last_index.
C6_AtMost25 ==
  \A t \in BatchThreads :
    /\ run[t].unsaved <= (IF pc[t] = "checkpoint" THEN SaveEvery ELSE SaveEvery - 1)
    /\ (InLoop(t) /\ Active = {t} /\ run[t].start = run[t].k) =>
         product_scraper.last_scraped_index - PersistedIndex = run[t].unsaved

\* A run stands between the 25th URL of its window and the save: 25 URLs of
\* work are in memory only.
C6_Witness ==
  \E t \in BatchThreads :
    /\ pc[t] = "checkpoint"
    /\ run[t].unsaved = SaveEvery
    /\ product_scraper.last_scraped_index - PersistedIndex = SaveEvery

\* C7: every batch run that starts ends, and the step that ends it leaves
\* running = False, with the error recorded when it ends on an internal error.
C7_RunEnds ==
  /\ \A t \in BatchThreads : (pc[t] = "entry") ~> (pc[t] = "idle")
  /\ [][\A t \in BatchThreads :
          (pc[t] # "idle" /\ pc'[t] = "idle") =>
            /\ ~scraper_status'.running
            /\ last_result' = "error" => scraper_status'.error = InternalError]_vars

\* A run has ended on an internal error: running is clear, the error recorded.
C7_Witness ==
  /\ last_result = "error"
  /\ Active = {}
  /\ ~scraper_status.running
  /\ scraper_status.error = InternalError

\* What C8 says of the step that exits on the empty list, but for running.
EmptyExitEffect(t) ==
  /\ scraper_status'.error = NoUrlsError
  /\ ~scraper_status'.running
  /\ run[t].fetched = <<>>
  /\ UNCHANGED <<files, attempts>>

\* C8 as claimed: a run that finds the URL list empty reports the
\* configuration error, never set running to True, fetched nothing and
\* leaves products.json and progress.json as they were.
C8_NeverMarksRunning ==
  [][\A t \in BatchThreads :
       ExitsEmpty(t) => EmptyExitEffect(t) /\ ~run[t].marked]_vars

\* C8 as amended: such a run did set running to True on entry (line 281) and
\* its exit sets it back to False; it reports the configuration error, fetches
\* nothing and leaves the files as they were.
C8_MarksThenClears ==
  [][\A t \in BatchThreads :
       ExitsEmpty(t) => EmptyExitEffect(t) /\ run[t].marked]_vars

\* A run has exited on the empty list.
C8_Witness ==
  /\ last_result = "empty"
  /\ Active = {}
  /\ scraper_status.error = NoUrlsError
  /\ ~scraper_status.running
  /\ ~progress_file.exists /\ ~products_file.exists

\* C9: at most one batch or crawl execution is active at any time.
C9_AtMostOneActive == Cardinality(Active) <= 1

\* C10: the interval job and the startup thread start a batch only when
\* running is False.
C10_SchedulersCheckRunning ==
  [][\A t \in {"sched", "auto"} :
       (pc[t] = "idle" /\ pc'[t] = "entry") => ~scraper_status.running]_vars

\* The GETs of a call that end it: a 200 or a 404 among the first three.
Final(responses) == {j \in 1..3 : responses[j].status \in {"200", "404"}}

\* C11: fetch_page issues at most 3 GETs and raises nothing; it returns the
\* body of the first 200 answer, absent at the first 404 with no further GET,
\* goes on to the next GET after any other status or a transport exception,
\* and returns absent once 3 GETs have failed.
C11_FetchPage ==
  fetch_page_call.returned =>
    LET responses == fetch_page_call.responses
        first == CHOOSE j \in Final(responses) :
                   \A n \in Final(responses) : j <= n
    IN  /\ fetch_page_call.requests <= 3
        /\ ~fetch_page_call.raised
        /\ IF Final(responses) = {}
           THEN /\ fetch_page_call.requests = 3
                /\ fetch_page_call.html = NoPage
           ELSE /\ fetch_page_call.requests = first
                /\ fetch_page_call.html =
                     IF responses[first].status = "200"
                     THEN responses[first].page ELSE NoPage

\* A call has returned the page of its third GET, after a transport exception
\* and a 503.
C11_Witness ==
  /\ fetch_page_call.returned
  /\ fetch_page_call.responses[1] = Raised
  /\ fetch_page_call.responses[2] = Unavailable
  /\ fetch_page_call.responses[3] = Ok(TitledPage)
  /\ fetch_page_call.requests = 3
  /\ fetch_page_call.html = TitledPage

\* The fetch of claim C12 failed: the answers hold a 404 before any 200, or
\* neither among the three.
FetchFailed(responses) ==
  \/ Final(responses) = {}
  \/ \E j \in Final(responses) :
       /\ responses[j].status = "404"
       /\ \A n \in Final(responses) : j <= n

\* The title of the page the first 200 answer carries.
FetchedTitle(responses) ==
  LET j == CHOOSE n \in Final(responses) : \A m \in Final(responses) : n <= m
  IN  IF responses[j].page.h1 = NoElem THEN "" ELSE responses[j].page.h1

\* C12: every URL a batch processes has one of three outcomes: (i) the fetch
\* failed and the URL is appended once to failed_urls, the catalog unchanged;
\* (ii) the fetch returned a 200 answer whose title is non-empty and one record
\* is appended to the catalog, failed_urls unchanged; (iii) the fetch returned
\* a 200 answer whose title is empty and neither changes.  In each case
\* last_scraped_index advances by one.
C12_OneOutcome ==
  [][\A t \in BatchThreads :
       pc[t] = "fetch" =>
         \A responses \in BatchAnswers :
           \A answers \in [1..Len(fetch_page(responses, 0).html.imgs) ->
                             ImageAnswers] :
             FetchOne(t, responses, answers) =>
               LET url == run[t].urls[run[t].i + 1]
                   old == product_scraper
                   new == product_scraper'
               IN  /\ new.last_scraped_index = old.last_scraped_index + 1
                   /\ IF FetchFailed(responses)
                      THEN /\ new.failed_urls = Append(old.failed_urls, url)
                           /\ new.products = old.products
                      ELSE IF FetchedTitle(responses) # ""
                      THEN /\ Len(new.products) = Len(old.products) + 1
                           /\ SubSeq(new.products, 1, Len(old.products)) =
                                old.products
                           /\ new.products[Len(new.products)].source_url = url
                           /\ new.failed_urls = old.failed_urls
                      ELSE /\ new.products = old.products
                           /\ new.failed_urls = old.failed_urls]_vars

\* The text of a price element as claim C13 has it: the pound sign followed
\* by a number, which may hold thousands separators and a decimal point.
PoundNumber(text) ==
  /\ Len(text) >= 2
  /\ text[1] = Pound
  /\ text[2] \in DigitSet
  /\ \A j \in 2..Len(text) : text[j] \in DigitSet \cup {",", "."}

\* The first run of the behaviour has completed and its one fetch gave a
\* titled page.
OneTitledRun ==
  /\ last_result = "completed"
  /\ Active = {}
  /\ runs = 1
  /\ faults = 0

\* C13: for a one-element URL list whose URL ends in a SKU-shaped segment, no
\* checkpoint, and a fetched page with a non-empty h1 and a price element whose
\* text is the pound sign followed by a number, the batch leaves a catalog of
\* one record whose title is the h1 text, whose source_sku is the upper-cased
\* segment, whose single variant's price is the number without thousands
\* separators, whose tags include SKU:<sku>, UK, Nisbets UK and GBP, and the
\* checkpoint last_index = 1.
C13_EndToEnd ==
  \A page \in served :
    ( /\ OneTitledRun
      /\ served = {page}
      /\ Len(bundled) = 1
      /\ SkuShaped(LastSegment(bundled[1]))
      /\ page.h1 \notin {NoElem, ""}
      /\ Len(page.prices) = 1
      /\ PoundNumber(page.prices[1]) )
    => /\ products_file.exists
       /\ Len(products_file.products) = 1
       /\ LET record == products_file.products[1]
              sku == Upper(LastSegment(bundled[1]))
          IN  /\ record.title = page.h1
              /\ record.source_sku = sku
              /\ Len(record.variants) = 1
              /\ record.variants[1].price = StripCommas(Tail(page.prices[1]))
              /\ \A tag \in {<<"SKU:">> \o sku, <<"UK">>, <<"Nisbets UK">>,
                             <<"GBP">>} :
                   \E j \in 1..Len(record.tags) : record.tags[j] = tag
       /\ progress_file.exists
       /\ progress_file.last_index = 1

\* Thread t's run_batch ends in this step on an internal error.
EndsOnError(t) ==
  pc[t] # "idle" /\ pc'[t] = "idle" /\ last_result' = "error"

\* Every record of the persisted catalog is of a URL below the persisted
\* last_index.
CatalogWithinIndex ==
  \A n \in 1..Len(products_file.products) :
    \E j \in 1..Min(PersistedIndex, Len(LoadUrls)) :
      LoadUrls[j] = products_file.products[n].source_url

\* C14: when an internal error ends a batch, the rest of the window is not
\* processed, scraper_status.error is set, and products.json and progress.json
\* keep what the last checkpoint before the error wrote, the catalog covering
\* the same URL indices as last_index.
C14_ErrorKeepsCheckpoint ==
  [][\A t \in BatchThreads :
       EndsOnError(t) =>
         /\ scraper_status'.error = InternalError
         /\ UNCHANGED <<products_file, progress_file>>
         /\ CatalogWithinIndex']_vars

\* The sequence a is a prefix of the sequence b.
IsPrefix(a, b) == Len(a) <= Len(b) /\ SubSeq(b, 1, Len(a)) = a

\* The elements of a occur in b in the order of a.
RECURSIVE IsSubseq(_, _)
IsSubseq(a, b) ==
  IF a = <<>> THEN TRUE
  ELSE IF b = <<>> THEN FALSE
  ELSE IF Head(a) = Head(b) THEN IsSubseq(Tail(a), Tail(b))
  ELSE IsSubseq(a, Tail(b))

\* The records products.json holds (none without the file).
PersistedProducts ==
  IF products_file.exists THEN products_file.products ELSE <<>>

\* Thread t writes products.json in this step.
WritesProducts(t) ==
  /\ pc[t] \in {"checkpoint", "finish"}
  /\ pc'[t] # pc[t]
  /\ products_file' # products_file

\* C15: a batch run only appends to the catalog: each write of products.json
\* holds the records persisted before as a prefix, followed by records that
\* include, in the order of its window, every record the writing run has
\* extracted; no persisted record is lost or reordered.
C15_AppendOnly ==
  [][\A t \in BatchThreads :
       WritesProducts(t) =>
         LET old == PersistedProducts
             new == PersistedProducts'
         IN  /\ IsPrefix(old, new)
             /\ IsSubseq(run[t].titled,
                         [n \in 1..Len(new) |-> new[n].source_url])]_vars

\* The part of C15 about the records persisted before: every write of
\* products.json holds them as a prefix.
PrefixKept ==
  [][\A t \in BatchThreads :
       WritesProducts(t) => IsPrefix(PersistedProducts, PersistedProducts')]_vars

\* The crawl run ends in this step.
CrawlEnds == pc["crawl"] = "visit" /\ pc'["crawl"] = "idle"

\* What C16 and its amendment share: a crawl run that starts ends; it visits
\* a page only while the pending set is not empty and fewer than max_pages
\* pages are visited; the category pages it has fetched are never more than
\* max_pages.
CrawlBounded ==
  /\ (pc["crawl"] = "entry") ~> (pc["crawl"] = "idle")
  /\ [][pages' = pages + 1 =>
          url_scraper.category_links # {} /\ pages < max_pages]_vars
  /\ [](pc["crawl"] = "visit" =>
          /\ pages <= max_pages
          /\ Cardinality(BagToSet(crawl_log.fetched)) <= max_pages)

\* C16 as claimed: a crawl run terminates, never visits more than max_pages
\* category pages, and stops exactly when the pending set is empty or the
\* pages visited have reached max_pages.
C16_StopsAtEmptyOrBudget ==
  /\ CrawlBounded
  /\ [][CrawlEnds =>
          url_scraper'.category_links = {} \/ pages' = max_pages]_vars

\* C16 as amended: the same, but the run also stops, with the error recorded,
\* when the save at a 50th page raises.
C16_StopsAtEmptyBudgetOrError ==
  /\ CrawlBounded
  /\ [][CrawlEnds =>
          \/ url_scraper'.category_links = {}
          \/ pages' = max_pages
          \/ /\ AtCrawlSave(pages')
             /\ scraper_status'.error = InternalError]_vars

\* A crawl run has stopped on its budget with category pages still pending.
C16_Witness ==
  /\ pc["crawl"] = "idle"
  /\ crawls >= 1
  /\ pages = max_pages
  /\ url_scraper.category_links # {}
  /\ scraper_status.error = None

\* C17: within a crawl run no category URL is fetched more than once: every
\* fetch of the loop is of a URL that was not in the visited set, the URL is in
\* the visited set from then on, and no page read later puts a visited URL
\* back into the pending set.
FetchedNow(u) ==
  CopiesIn(u, crawl_log'.fetched) > CopiesIn(u, crawl_log.fetched)

C17_FetchedOnce ==
  /\ [](\A u \in BagToSet(crawl_log.fetched) :
          /\ CopiesIn(u, crawl_log.fetched) = 1
          /\ u \in url_scraper.visited)
  /\ [](url_scraper.category_links \cap url_scraper.visited = {})
  /\ [][\A u \in url_scraper.visited \cup url_scraper.category_links :
          /\ FetchedNow(u) => u \notin url_scraper.visited
          /\ u \in url_scraper.visited => u \in url_scraper'.visited]_vars

\* Category 2 was fetched with status 200, after category 1: its page links
\* category 1 again, which stays out of the pending set.
C17_Witness ==
  /\ pc["crawl"] = "visit"
  /\ CopiesIn(-1, crawl_log.fetched) = 1
  /\ CopiesIn(-2, crawl_log.fetched) = 1
  /\ 2 \in url_scraper.product_links
  /\ -1 \in SiteLinks(-2)
  /\ -1 \notin url_scraper.category_links

\* C18: every crawl run begins with an empty product-URL set, an empty
\* visited set and an empty pending set, and after the seed page was read the
\* pending set holds the category links of the seed page, whatever an earlier
\* run visited.
SeedCategories ==
  {l \in SiteLinks(base_url) : ~is_product_url(l) /\ is_category_url(l)}

C18_FreshFrontier ==
  /\ pc["crawl"] = "seed" =>
       url_scraper = [product_links |-> {}, category_links |-> {},
                      visited |-> {}]
  /\ (pc["crawl"] = "visit" /\ pages = 0 /\ crawl_log.found # {}) =>
       url_scraper.category_links = SeedCategories

\* C19: product_urls.txt is overwritten with the sorted product-URL set when
\* the visited-page count reaches a multiple of 50 and at no other page of the
\* loop, and when a crawl run ends without an error the file holds exactly
\* the product URLs that run found.
CrawlPage == pc["crawl"] = "visit" /\ pc'["crawl"] = "visit" /\ pages' = pages + 1

C19_FileIsThisCrawl ==
  /\ [][CrawlPage =>
          urls_file' = IF AtCrawlSave(pages')
                       THEN SavedUrls(url_scraper'.product_links)
                       ELSE urls_file]_vars
  /\ [][CrawlEnds /\ scraper_status'.error = None =>
          urls_file' = SavedUrls(crawl_log.found)]_vars

\* --------------------------------------------------- the images directory
\* img elements: two product images, the second one once more at another
\* size and as a .png, and the site's logo.
ImgA == [base |-> "a", png |-> FALSE, prod |-> TRUE]
ImgB == [base |-> "b", png |-> FALSE, prod |-> TRUE]
ImgBpng == [base |-> "b", png |-> TRUE, prod |-> TRUE]
ImgLogo == [base |-> "logo", png |-> TRUE, prod |-> FALSE]

ImagePages ==
  {[body |-> "html", h1 |-> "Widget", prices |-> <<>>, imgs |-> imgs] :
     imgs \in {<<ImgA>>, <<ImgLogo, ImgA, ImgB>>, <<ImgA, ImgBpng, ImgB>>}}

\* Runs one after another over a URL list that names a product twice, names
\* two products, or names two URLs that carry no SKU.
InitImages ==
  /\ InitCommon
  /\ batch_size = SmallBatch
  /\ bundled \in {<<1, 1>>, <<1, 2>>, <<LoginLink, base_url>>}
  /\ auto_pending = AUTO_START
  /\ served = ImagePages
  /\ max_pages = MAX_PAGES
  /\ categories = NumCategories
  /\ fetch_page_call = NoCall

NextImages ==
  \/ Active = {} /\ StartScraper
  \/ Active = {} /\ AutoStartScraping
  \/ \E t \in BatchThreads : BatchEntry(t)
  \/ \E t \in BatchThreads : BatchLoad(t)
  \/ \E t \in BatchThreads : BatchFetch(t)
  \/ \E t \in BatchThreads : BatchFinish(t)

ImageSpec == InitImages /\ [][NextImages]_vars

C21_SnapshotAgrees ==
  [][\A t \in BatchThreads :
       Completes(t) =>
         /\ scraper_status'.current_index = progress_file'.last_index
         /\ scraper_status'.products_scraped = Len(products_file'.products)
         /\ scraper_status'.failed_count = Len(progress_file'.failed_urls)
         /\ ~scraper_status'.running
         /\ scraper_status'.current_product = NoProduct]_vars
====
